---- MODULE Spec2Model ----
(***************************************************************************)
(* Verification model of the original logic of Kinetiscope_Utils:          *)
(*   - build_top_reaction_dict.py : per-species top reaction selection     *)
(*   - gen_HiPRGen_rxn_dict_direct.py : pathway ranking, nested            *)
(*     classification tree, and the classification driver script           *)
(***************************************************************************)
EXTENDS Integers, Sequences, FiniteSets, TLC

\* ---------------------------------------------------------------- bounds
MaxRxns == 2        \* reactions in index_reaction_dict
MaxRole == 2        \* species occurrences in one role list
MaxFreq == 1        \* largest selection_freq

Species == {"A", "B"}

SeqsUpTo(S, n) == UNION {[1..k -> S] : k \in 0..n}

Range(f) == {f[x] : x \in DOMAIN f}

\* the role lists a builder iterates, and the lists of the role it never reads
RoleLists == SeqsUpTo(Species, MaxRole)
OtherRoleLists == {<<"B", "A">>}

\* the reaction objects handed to the builder of role r
Reaction(r) ==
    {[reactants |-> IF r = "reactants" THEN l ELSE o,
      products |-> IF r = "products" THEN l ELSE o,
      selection_freq |-> f] : l \in RoleLists, o \in OtherRoleLists, f \in 0..MaxFreq}

VARIABLES
    index_reaction_dict, \* values of the input dict, in iteration order
    role,                \* "products" (build_top_reaction_dict) or
                         \* "reactants" (build_top_reaction_dict_for_reactants)
    top_reactions,       \* species -> position of the stored reaction object
    ri, si,              \* outer / inner loop positions
    tpc                  \* "idle", "loop", "returned"

topVars == <<index_reaction_dict, role, top_reactions, ri, si, tpc>>

VARIABLES
    classification_list, \* reaction id -> its classification_list attribute
    tagged_rxn_dict,     \* the nested tree: path -> node (the root is a dict)
    call_log             \* add_reaction_to_dictionary calls so far, with the
                         \* exception each one raised ("none" when it returned)

treeVars == <<classification_list, tagged_rxn_dict, call_log>>

VARIABLES
    all_pathways_list,    \* pathways of the current product, as loaded
    sorted_pathways_list, \* result of sort_pathways_list
    to_save_pathways,     \* pathways kept for processing
    pi,                   \* position of the truncation loop
    rpc                   \* "idle", "sort", "save", "saved"

rankVars == <<all_pathways_list, sorted_pathways_list, to_save_pathways, pi, rpc>>

VARIABLES
    dpc,                 \* position of the driver script
    cwd,                 \* working directory set by os.chdir
    index_rxn_dict,      \* local of add_high_frequency_P2_reactions: the
                         \* reactions of the phase-2 tally with their frequencies
    all_reactions,       \* reactions of the current product's pathway file
    rxns_for_simulation, \* list of reaction objects
    rxns_already_added,  \* set of reaction names
    idx,                 \* position of the current loop over reactions
    prod_i, pw_i, pr_i,  \* product / pathway / reaction-in-pathway positions
    raised,              \* exception in flight inside add_high_frequency_P2_reactions
    printed,             \* messages printed by the except clauses
    p2_entry,            \* during the P2 call: the two collections as the call got them
    narrow_calls         \* population passed to each narrow_down_ionization_type call

driverVars == <<dpc, cwd, index_rxn_dict, all_reactions, rxns_for_simulation,
                rxns_already_added, idx, prod_i, pw_i, pr_i, raised, printed,
                p2_entry, narrow_calls>>

VARIABLES
    final_mol_ids,       \* ids selected for the test set
    entry,               \* current element of database_entries
    new_entry,           \* its deep copy, the keys being popped from it
    test_set,            \* list of the copies built so far
    db_i,                \* position in database_entries
    name_i, rem_i,       \* positions in entry.keys() and in to_remove
    cpc,                 \* position of the test-set script
    copy_raised          \* exception that ended the script

copyVars == <<final_mol_ids, entry, new_entry, test_set, db_i, name_i, rem_i,
              cpc, copy_raised>>

vars == <<topVars, treeVars, rankVars, driverVars, copyVars>>

\* ------------------------------------------------- build_top_reaction_dict
RoleList(r) == IF role = "products" THEN r.products ELSE r.reactants

should_update_reaction_lt(top, product, reaction) ==
    IF product \notin DOMAIN top THEN TRUE
    ELSE reaction.selection_freq < index_reaction_dict[top[product]].selection_freq

should_update_reaction_ge(top, product, reaction) ==
    IF product \notin DOMAIN top THEN TRUE
    ELSE reaction.selection_freq >= index_reaction_dict[top[product]].selection_freq

should_update_reaction_never_new(top, product, reaction) ==
    IF product \notin DOMAIN top THEN FALSE
    ELSE reaction.selection_freq > index_reaction_dict[top[product]].selection_freq

should_update_reaction(top, product, reaction) ==
    IF product \notin DOMAIN top THEN TRUE
    ELSE reaction.selection_freq > index_reaction_dict[top[product]].selection_freq

\* lines 72-73 (143-144): the reaction object at position i is stored for the
\* species when should_update_reaction says so
UpdateTop_else_drop(top, product, i) ==
    IF should_update_reaction(top, product, index_reaction_dict[i])
    THEN [s \in DOMAIN top \cup {product} |-> IF s = product THEN i ELSE top[s]]
    ELSE [s \in DOMAIN top \ {product} |-> top[s]]

UpdateTop(top, product, i) ==
    IF should_update_reaction(top, product, index_reaction_dict[i])
    THEN [s \in DOMAIN top \cup {product} |-> IF s = product THEN i ELSE top[s]]
    ELSE top

\* a builder that consumes the role list it iterates
ProcessSpecies_pop ==
    /\ tpc = "loop"
    /\ ri <= Len(index_reaction_dict)
    /\ si <= Len(RoleList(index_reaction_dict[ri]))
    /\ top_reactions' = UpdateTop(top_reactions, RoleList(index_reaction_dict[ri])[si], ri)
    /\ index_reaction_dict' =
          [index_reaction_dict EXCEPT ![ri] =
              IF role = "products"
              THEN [@ EXCEPT !.products = Tail(@)]
              ELSE [@ EXCEPT !.reactants = Tail(@)]]
    /\ UNCHANGED <<role, ri, si, tpc>>
    /\ UNCHANGED <<treeVars, rankVars, driverVars, copyVars>>

\* inner loop body: one occurrence of a species in the role list
ProcessSpecies ==
    /\ tpc = "loop"
    /\ ri <= Len(index_reaction_dict)
    /\ si <= Len(RoleList(index_reaction_dict[ri]))
    /\ top_reactions' = UpdateTop(top_reactions, RoleList(index_reaction_dict[ri])[si], ri)
    /\ si' = si + 1
    /\ UNCHANGED <<index_reaction_dict, role, ri, tpc>>
    /\ UNCHANGED <<treeVars, rankVars, driverVars, copyVars>>

\* inner loop exhausted: next value of index_reaction_dict.values()
NextReaction ==
    /\ tpc = "loop"
    /\ ri <= Len(index_reaction_dict)
    /\ si > Len(RoleList(index_reaction_dict[ri]))
    /\ ri' = ri + 1
    /\ si' = 1
    /\ UNCHANGED <<index_reaction_dict, role, top_reactions, tpc>>
    /\ UNCHANGED <<treeVars, rankVars, driverVars, copyVars>>

ReturnTop ==
    /\ tpc = "loop"
    /\ ri > Len(index_reaction_dict)
    /\ tpc' = "returned"
    /\ UNCHANGED <<index_reaction_dict, role, top_reactions, ri, si>>
    /\ UNCHANGED <<treeVars, rankVars, driverVars, copyVars>>

TopNext == ProcessSpecies \/ NextReaction \/ ReturnTop

\* positions of the reactions listing species s in the chosen role
Candidates(s) ==
    {i \in 1..Len(index_reaction_dict) : s \in Range(RoleList(index_reaction_dict[i]))}

Freq(i) == index_reaction_dict[i].selection_freq

\* C1: every key S of the table returned by build_top_reaction_dict maps to a
\* reaction that lists S among its products, and no reaction listing S among
\* its products has a strictly greater selection_freq than the stored one.
C1_TopIsMaximal ==
    (tpc = "returned" /\ role = "products") =>
        \A s \in DOMAIN top_reactions :
            /\ top_reactions[s] \in 1..Len(index_reaction_dict)
            /\ s \in Range(index_reaction_dict[top_reactions[s]].products)
            /\ \A i \in 1..Len(index_reaction_dict) :
                  s \in Range(index_reaction_dict[i].products)
                      => Freq(i) <= Freq(top_reactions[s])

\* a later reaction with a greater frequency replaced an earlier one
C1_Witness ==
    /\ tpc = "returned" /\ role = "products"
    /\ \E s \in DOMAIN top_reactions :
          \E i \in Candidates(s) : i < top_reactions[s] /\ Freq(i) < Freq(top_reactions[s])

\* C2: among several reactions listing S in the chosen role with the maximal
\* selection_freq, the returned table keeps the first in iteration order.
C2_TieKeepsFirst ==
    tpc = "returned" =>
        \A s \in DOMAIN top_reactions :
            \A i \in Candidates(s) :
                (\A j \in Candidates(s) : Freq(j) <= Freq(i)) => top_reactions[s] <= i

\* two candidates share the maximal frequency
C2_Witness ==
    /\ tpc = "returned"
    /\ \E s \in DOMAIN top_reactions :
          \E i, j \in Candidates(s) :
              /\ i < j
              /\ Freq(i) = Freq(j)
              /\ \A k \in Candidates(s) : Freq(k) <= Freq(i)

\* C12: the builders leave index_reaction_dict as it was: same reactions in
\* the same order, with the same reactants, products and selection_freq.
C12_InputUnchanged == [][index_reaction_dict' = index_reaction_dict]_vars

\* a builder has returned a table with entries
C12_Witness ==
    /\ tpc = "returned"
    /\ DOMAIN top_reactions # {}
    /\ Len(index_reaction_dict) = MaxRxns

\* C15: when a species occurs again in the role list of the same reaction,
\* processing that occurrence leaves the table as it was.
C15_RepeatIsNoOp ==
    [][(/\ tpc = "loop"
        /\ si' = si + 1
        /\ \E k \in 1..(si - 1) :
              RoleList(index_reaction_dict[ri])[k] = RoleList(index_reaction_dict[ri])[si])
       => top_reactions' = top_reactions]_vars

\* the first occurrence replaced an earlier reaction and the second one is done
C15_Witness ==
    /\ tpc = "loop"
    /\ ri = 2
    /\ si = 3
    /\ RoleList(index_reaction_dict[2])[1] = RoleList(index_reaction_dict[2])[2]
    /\ RoleList(index_reaction_dict[2])[1] \in Range(RoleList(index_reaction_dict[1]))
    /\ top_reactions[RoleList(index_reaction_dict[2])[1]] = 2

\* the two builders as functions of the table (lines 67-75 and 138-146)
RECURSIVE FoldSpecies(_, _, _)
FoldSpecies(top, species, i) ==
    IF species = <<>> THEN top
    ELSE FoldSpecies(UpdateTop(top, Head(species), i), Tail(species), i)

RECURSIVE BuildFromProducts(_, _, _)
BuildFromProducts(top, T, i) ==
    IF i > Len(T) THEN top
    ELSE BuildFromProducts(FoldSpecies(top, T[i].products, i), T, i + 1)

RECURSIVE BuildFromReactants(_, _, _)
BuildFromReactants(top, T, i) ==
    IF i > Len(T) THEN top
    ELSE BuildFromReactants(FoldSpecies(top, T[i].reactants, i), T, i + 1)

build_top_reaction_dict(T) == BuildFromProducts(<<>>, T, 1)

build_top_reaction_dict_for_reactants_products(T) == BuildFromProducts(<<>>, T, 1)

build_top_reaction_dict_for_reactants(T) == BuildFromReactants(<<>>, T, 1)

\* T with each reaction's reactants and products swapped
SwapRoles(T) ==
    [i \in DOMAIN T |-> [reactants |-> T[i].products,
                         products |-> T[i].reactants,
                         selection_freq |-> T[i].selection_freq]]

\* C16: build_top_reaction_dict_for_reactants(T) is build_top_reaction_dict
\* of T with the roles swapped, and the table a builder returns is that
\* function of its input.
C16_BuildersAgreeUnderSwap ==
    tpc = "returned" =>
        /\ build_top_reaction_dict_for_reactants(index_reaction_dict)
              = build_top_reaction_dict(SwapRoles(index_reaction_dict))
        /\ top_reactions = IF role = "products"
                           THEN build_top_reaction_dict(index_reaction_dict)
                           ELSE build_top_reaction_dict_for_reactants(index_reaction_dict)

\* the reactant builder has returned a table decided by a tie
C16_Witness ==
    /\ tpc = "returned"
    /\ role = "reactants"
    /\ \E s \in DOMAIN top_reactions :
          \E j \in Candidates(s) : j > top_reactions[s] /\ Freq(j) = Freq(top_reactions[s])

\* C17: the keys of the table returned by build_top_reaction_dict are exactly
\* the species occurring in the products of some reaction, and every value is
\* a reaction of index_reaction_dict.
C17_KeysAreTheProducts ==
    (tpc = "returned" /\ role = "products") =>
        /\ DOMAIN top_reactions =
              UNION {Range(index_reaction_dict[i].products) : i \in DOMAIN index_reaction_dict}
        /\ \A s \in DOMAIN top_reactions : top_reactions[s] \in DOMAIN index_reaction_dict

\* one reaction has no products and another has some
C17_Witness ==
    /\ tpc = "returned" /\ role = "products"
    /\ \E i, j \in DOMAIN index_reaction_dict :
          /\ index_reaction_dict[i].products = <<>>
          /\ index_reaction_dict[j].products # <<>>
    /\ DOMAIN top_reactions # {}

\* ------------------------------------------------ add_value_to_nested_dict
MaxDepth == 3       \* longest classification path
MaxCalls == 2       \* add_reaction_to_dictionary calls in one run
NumRxnIds == 2      \* distinct reaction objects

Keys == {"a", "b"}
Paths == SeqsUpTo(Keys, MaxDepth)
RxnIds == 1..NumRxnIds

DictNode == [kind |-> "dict", items |-> <<>>]
ListNode(items) == [kind |-> "list", items |-> items]

EmptyTree == <<>>

\* the container at path cur is a list (the root is always a dict)
IsList(t, cur) == cur # <<>> /\ t[cur].kind = "list"

\* keys present in the dict at path cur
KeysAt(t, cur) ==
    {p[Len(p)] : p \in {q \in DOMAIN t : Len(q) = Len(cur) + 1
                                          /\ SubSeq(q, 1, Len(cur)) = cur}}

\* the loop over keys[:-1]; a str key is never an element of a list of
\* reactions, so on a list the item assignment raises TypeError
RECURSIVE Traverse(_, _, _)
Traverse(t, cur, ks) ==
    IF ks = <<>> THEN [exc |-> "none", tree |-> t, cur |-> cur]
    ELSE LET key == Head(ks)
             child == Append(cur, key)
         IN  IF IsList(t, cur)
             THEN [exc |-> "TypeError", tree |-> t, cur |-> cur]
             ELSE IF key \notin KeysAt(t, cur)
                  THEN Traverse((child :> DictNode) @@ t, child, Tail(ks))
                  ELSE Traverse(t, child, Tail(ks))

add_value_to_nested_dict_overwrite(value, keys, nested_dict) ==
    IF keys = <<>> THEN [exc |-> "IndexError", tree |-> nested_dict]
    ELSE LET d == Traverse(nested_dict, <<>>, SubSeq(keys, 1, Len(keys) - 1))
             last_key == keys[Len(keys)]
             leaf == Append(d.cur, last_key)
         IN  IF d.exc # "none" THEN [exc |-> d.exc, tree |-> d.tree]
             ELSE IF IsList(d.tree, d.cur)
                  THEN [exc |-> "TypeError", tree |-> d.tree]
                  ELSE IF last_key \in KeysAt(d.tree, d.cur) /\ d.tree[leaf].kind = "dict"
                       THEN [exc |-> "AttributeError", tree |-> d.tree]
                       ELSE [exc |-> "none",
                             tree |-> (leaf :> ListNode(<<value>>)) @@ d.tree]

add_value_to_nested_dict_dedup(value, keys, nested_dict) ==
    IF keys = <<>> THEN [exc |-> "IndexError", tree |-> nested_dict]
    ELSE LET d == Traverse(nested_dict, <<>>, SubSeq(keys, 1, Len(keys) - 1))
             last_key == keys[Len(keys)]
             leaf == Append(d.cur, last_key)
         IN  IF d.exc # "none" THEN [exc |-> d.exc, tree |-> d.tree]
             ELSE IF IsList(d.tree, d.cur)
                  THEN [exc |-> "TypeError", tree |-> d.tree]
                  ELSE LET t2 == IF last_key \notin KeysAt(d.tree, d.cur)
                                 THEN (leaf :> ListNode(<<>>)) @@ d.tree
                                 ELSE d.tree
                       IN  IF t2[leaf].kind = "dict"
                           THEN [exc |-> "AttributeError", tree |-> t2]
                           ELSE [exc |-> "none",
                                 tree |-> [t2 EXCEPT ![leaf].items =
                                              IF value \in Range(@) THEN @ ELSE Append(@, value)]]

add_value_to_nested_dict_prepend(value, keys, nested_dict) ==
    IF keys = <<>> THEN [exc |-> "IndexError", tree |-> nested_dict]
    ELSE LET d == Traverse(nested_dict, <<>>, SubSeq(keys, 1, Len(keys) - 1))
             last_key == keys[Len(keys)]
             leaf == Append(d.cur, last_key)
         IN  IF d.exc # "none" THEN [exc |-> d.exc, tree |-> d.tree]
             ELSE IF IsList(d.tree, d.cur)
                  THEN [exc |-> "TypeError", tree |-> d.tree]
                  ELSE LET t2 == IF last_key \notin KeysAt(d.tree, d.cur)
                                 THEN (leaf :> ListNode(<<>>)) @@ d.tree
                                 ELSE d.tree
                       IN  IF t2[leaf].kind = "dict"
                           THEN [exc |-> "AttributeError", tree |-> t2]
                           ELSE [exc |-> "none",
                                 tree |-> [t2 EXCEPT ![leaf].items = <<value>> \o @]]

add_value_to_nested_dict(value, keys, nested_dict) ==
    IF keys = <<>> THEN [exc |-> "IndexError", tree |-> nested_dict]
    ELSE LET d == Traverse(nested_dict, <<>>, SubSeq(keys, 1, Len(keys) - 1))
             last_key == keys[Len(keys)]
             leaf == Append(d.cur, last_key)
         IN  IF d.exc # "none" THEN [exc |-> d.exc, tree |-> d.tree]
             ELSE IF IsList(d.tree, d.cur)
                  THEN [exc |-> "TypeError", tree |-> d.tree]
                  ELSE LET t2 == IF last_key \notin KeysAt(d.tree, d.cur)
                                 THEN (leaf :> ListNode(<<>>)) @@ d.tree
                                 ELSE d.tree
                       IN  IF t2[leaf].kind = "dict"
                           THEN [exc |-> "AttributeError", tree |-> t2]
                           ELSE [exc |-> "none",
                                 tree |-> [t2 EXCEPT ![leaf].items = Append(@, value)]]

add_reaction_to_dictionary(reaction, reaction_dict) ==
    add_value_to_nested_dict(reaction, classification_list[reaction], reaction_dict)

AddReaction ==
    /\ Len(call_log) < MaxCalls
    /\ \E reaction \in RxnIds :
          LET res == add_reaction_to_dictionary(reaction, tagged_rxn_dict)
          IN  /\ tagged_rxn_dict' = res.tree
              /\ call_log' = Append(call_log, [rxn |-> reaction, exc |-> res.exc])
    /\ UNCHANGED classification_list
    /\ UNCHANGED <<topVars, rankVars, driverVars, copyVars>>

TreeNext == AddReaction

\* reactions whose add_reaction_to_dictionary call returned
Inserted == {call_log[i].rxn : i \in {j \in DOMAIN call_log : call_log[j].exc = "none"}}

LeafPaths(t) == {p \in DOMAIN t : t[p].kind = "list"}

LeavesHolding(t, r) == {p \in LeafPaths(t) : r \in Range(t[p].items)}

RECURSIVE SumLens(_, _)
SumLens(t, ps) ==
    IF ps = {} THEN 0
    ELSE LET p == CHOOSE q \in ps : TRUE
         IN  Len(t[p].items) + SumLens(t, ps \ {p})

TotalLeafEntries(t) == SumLens(t, LeafPaths(t))

\* C3: every inserted reaction is in exactly one leaf list, the one at its
\* full classification_list path; every intermediate level on that path is a
\* mapping and the terminal level is a list.
C3_ReactionAtItsPath ==
    \A r \in Inserted :
        LET keys == classification_list[r]
        IN  /\ LeavesHolding(tagged_rxn_dict, r) = {keys}
            /\ keys \in DOMAIN tagged_rxn_dict
            /\ tagged_rxn_dict[keys].kind = "list"
            /\ \A n \in 1..(Len(keys) - 1) :
                  /\ SubSeq(keys, 1, n) \in DOMAIN tagged_rxn_dict
                  /\ tagged_rxn_dict[SubSeq(keys, 1, n)].kind = "dict"

\* one reaction went in below two dict levels, another into a leaf beside it
C3_Witness ==
    \E r1, r2 \in Inserted :
        /\ classification_list[r1] # classification_list[r2]
        /\ Len(classification_list[r1]) = 3
        /\ Len(classification_list[r2]) = 3
        /\ SubSeq(classification_list[r1], 1, 2) = SubSeq(classification_list[r2], 1, 2)

\* C4: inserting reactions with pairwise distinct (non-empty) classification
\* paths into an empty tree completes without error and the leaf lists hold one
\* entry per call, also when one path is a proper prefix of another.
C4_DistinctPathsAllStored ==
    (/\ \A i \in DOMAIN call_log : classification_list[call_log[i].rxn] # <<>>
     /\ \A i, j \in DOMAIN call_log :
           i # j => classification_list[call_log[i].rxn] # classification_list[call_log[j].rxn])
    => /\ \A i \in DOMAIN call_log : call_log[i].exc = "none"
       /\ TotalLeafEntries(tagged_rxn_dict) = Len(call_log)

\* number of returned calls made with reaction r
ReturnedCalls(r) ==
    Cardinality({i \in DOMAIN call_log : call_log[i].rxn = r /\ call_log[i].exc = "none"})

\* number of entries of the list l that are r
Occurrences(l, r) == Cardinality({i \in DOMAIN l : l[i] = r})

\* C13: the leaf list of a reaction holds one entry per add_reaction_to_dictionary
\* call made with it: the same reaction added twice is there twice.
C13_NoDeduplication ==
    \A r \in Inserted :
        Occurrences(tagged_rxn_dict[classification_list[r]].items, r) = ReturnedCalls(r)

\* the same reaction has been added twice
C13_Witness ==
    \E r \in Inserted :
        /\ ReturnedCalls(r) = 2
        /\ Len(classification_list[r]) > 1

IsPrefix(p, q) == Len(p) <= Len(q) /\ SubSeq(q, 1, Len(p)) = p

\* C14: a call that returns changes the tree only by appending the value at
\* the end of the leaf list at its path, creating the missing levels of that
\* path: old branches and leaves stay, other leaves keep their contents.
C14_OnlyAppendsAtPath ==
    [][(Len(call_log') = Len(call_log) + 1 /\ call_log'[Len(call_log')].exc = "none") =>
          LET value == call_log'[Len(call_log')].rxn
              keys == classification_list[value]
              old == IF keys \in DOMAIN tagged_rxn_dict
                     THEN tagged_rxn_dict[keys].items ELSE <<>>
          IN  /\ \A p \in DOMAIN tagged_rxn_dict :
                    /\ p \in DOMAIN tagged_rxn_dict'
                    /\ tagged_rxn_dict'[p].kind = tagged_rxn_dict[p].kind
                    /\ p # keys => tagged_rxn_dict'[p] = tagged_rxn_dict[p]
              /\ \A p \in DOMAIN tagged_rxn_dict' \ DOMAIN tagged_rxn_dict : IsPrefix(p, keys)
              /\ tagged_rxn_dict'[keys].items = Append(old, value)]_vars

\* a leaf holds two different reactions in the order they were added
C14_Witness ==
    /\ Len(call_log) = 2
    /\ call_log[1].rxn # call_log[2].rxn
    /\ \E p \in LeafPaths(tagged_rxn_dict) :
          tagged_rxn_dict[p].items = <<call_log[1].rxn, call_log[2].rxn>>

\* ------------------------------------- sort_pathways_list and truncation
MaxSortLen == 3     \* pathway lists enumerated exhaustively up to this length
MaxPathways == 12   \* longest pathway list of a product
MaxWeight == 2      \* weights are 1..MaxWeight
NumRxnKeys == 2     \* reaction keys a pathway may mention

PathwaysToSave == 10

Weights == 1..MaxWeight
Frequencies == {3, 5, 9}
RxnKeys == 1..NumRxnKeys
PathwayChoices == {<<1>>, <<2, 1>>}

PathwayDict == [weight : Weights, frequency : Frequencies, pathway : PathwayChoices]

FreqAt(i) == IF i % 3 = 0 THEN 3 ELSE IF i % 3 = 1 THEN 9 ELSE 5

\* longer lists, with weights constant (a = 0) or alternating (a = 1)
LongPathwayLists ==
    {[i \in 1..L |-> [weight |-> 1 + ((i * a) % MaxWeight),
                      frequency |-> FreqAt(i),
                      pathway |-> <<1 + (i % NumRxnKeys)>>]] :
        L \in (MaxSortLen + 1)..MaxPathways, a \in 0..1}

PathwayLists == SeqsUpTo(PathwayDict, MaxSortLen) \cup LongPathwayLists

\* comparison of the key tuples (weight, frequency)
KeyLess_weight_only(p, q) == p.weight < q.weight

KeyLess(p, q) ==
    \/ p.weight < q.weight
    \/ p.weight = q.weight /\ p.frequency < q.frequency

\* sorted() is stable: x goes after every element whose key is not greater
RECURSIVE InsertStable(_, _)
InsertStable(l, x) ==
    IF l = <<>> THEN <<x>>
    ELSE IF KeyLess(x, Head(l)) THEN <<x>> \o l
         ELSE <<Head(l)>> \o InsertStable(Tail(l), x)

RECURSIVE sort_pathways_list(_)
sort_pathways_list(pathways_list) ==
    IF pathways_list = <<>> THEN <<>>
    ELSE InsertStable(sort_pathways_list(SubSeq(pathways_list, 1, Len(pathways_list) - 1)),
                      pathways_list[Len(pathways_list)])

\* the break test of the truncation loop
SavedEnough_gt(number_pathways_saved) == number_pathways_saved > PathwaysToSave

SavedEnough(number_pathways_saved) == number_pathways_saved >= PathwaysToSave

SortPathways ==
    /\ rpc = "sort"
    /\ sorted_pathways_list' = sort_pathways_list(all_pathways_list)
    /\ to_save_pathways' = <<>>
    /\ pi' = 1
    /\ rpc' = "save"
    /\ UNCHANGED all_pathways_list
    /\ UNCHANGED <<topVars, treeVars, driverVars, copyVars>>

\* body of the truncation loop, with its break
SavePathway ==
    /\ rpc = "save"
    /\ pi <= Len(sorted_pathways_list)
    /\ to_save_pathways' = Append(to_save_pathways, sorted_pathways_list[pi].pathway)
    /\ IF SavedEnough(Len(to_save_pathways'))
       THEN rpc' = "saved" /\ pi' = pi
       ELSE rpc' = rpc /\ pi' = pi + 1
    /\ UNCHANGED <<all_pathways_list, sorted_pathways_list>>
    /\ UNCHANGED <<topVars, treeVars, driverVars, copyVars>>

\* the sorted list is exhausted before the break
PathwaysExhausted ==
    /\ rpc = "save"
    /\ pi > Len(sorted_pathways_list)
    /\ rpc' = "saved"
    /\ UNCHANGED <<all_pathways_list, sorted_pathways_list, to_save_pathways, pi>>
    /\ UNCHANGED <<topVars, treeVars, driverVars, copyVars>>

RankNext == SortPathways \/ SavePathway \/ PathwaysExhausted

Sorted == rpc \in {"save", "saved"}

Min(a, b) == IF a < b THEN a ELSE b

C6_HigherFrequencyFirst ==
    Sorted =>
        \A i, j \in DOMAIN sorted_pathways_list :
            (i < j /\ sorted_pathways_list[i].weight = sorted_pathways_list[j].weight)
                => sorted_pathways_list[i].frequency >= sorted_pathways_list[j].frequency

\* C7: to_save_pathways is exactly the first min(10, L) entries of the sorted
\* pathway list of length L, in sorted order.
C7_FirstTenSaved ==
    rpc = "saved" =>
        LET n == Min(PathwaysToSave, Len(sorted_pathways_list))
        IN  to_save_pathways = [i \in 1..n |-> sorted_pathways_list[i].pathway]

\* the loop stopped at the break with entries left over
C7_Witness ==
    /\ rpc = "saved"
    /\ Len(sorted_pathways_list) > PathwaysToSave
    /\ Len(to_save_pathways) = PathwaysToSave

\* ------------------------------------------------------ the driver script
MaxP1 == 2          \* reactions in the phase-1 tally
MaxP2 == 2          \* reactions in the phase-2 tally
MaxProducts == 1    \* products in sink_report.json
NumNames == 3       \* distinct reaction names

FrequencyThreshold == 500

Names == 1..NumNames
Malformed == 0      \* a rxn_dict HiPRGen_Reaction cannot be built from (None, missing keys)

\* entries at the threshold, and one below it that could not be processed
P2Entry ==
    {[rxn_dict |-> d, frequency |-> FrequencyThreshold] : d \in Names \cup {Malformed}}
    \cup {[rxn_dict |-> Malformed, frequency |-> FrequencyThreshold - 1]}

TallyStatus == {"ok", "missing", "corrupt"}

\* reaction key k of a pathway file names reaction NameOfKey(k), when present
NameOfKey(k) == ((k - 1) % NumNames) + 1

AllReactions ==
    {[k \in RxnKeys |-> IF k \in D THEN NameOfKey(k) ELSE Malformed] : D \in SUBSET RxnKeys}

DriverPathwayLists ==
    {<<>>,
     <<[weight |-> 2, frequency |-> 5, pathway |-> <<1>>],
       [weight |-> 1, frequency |-> 9, pathway |-> <<2, 1>>]>>}
    \cup {l \in LongPathwayLists : Len(l) = MaxPathways /\ l[1].weight # l[2].weight}

\* external classification predicates, as functions of the reaction
reaction_is_ionization(rxn) == rxn.name % 2 = 1

determine_broad_ionization_tag(rxn) ==
    IF rxn.name = 1 THEN "attachment_or_recombination" ELSE "positive_ionization"

determine_chemical_reaction_tag(rxn) ==
    IF rxn.name = 2 THEN "isomerization" ELSE "fragmentation"

narrow_down_ionization_type(reaction, population) ==
    IF \E i \in DOMAIN population : population[i].tag = "positive_ionization"
    THEN "electron_cation_recombination"
    ELSE "electron_attachment"

write_reaction_classification(reaction) ==
    IF reaction.tag \in {"fragmentation", "isomerization"}
    THEN <<"chemical", "unimolecular", reaction.tag>>
    ELSE <<"ionization", reaction.tag>>

HiPRGen_Reaction(rxn_dict, phase) == [name |-> rxn_dict, tag |-> "", phase |-> phase]

\* appends in place when the name is new; returns the two collections
add_reaction_if_new(new_rxn, tag, rxns, added) ==
    IF new_rxn.name \in added
    THEN [rxns |-> rxns, added |-> added]
    ELSE [rxns |-> Append(rxns, [new_rxn EXCEPT !.tag = tag]),
          added |-> added \cup {new_rxn.name}]

process_P2_reaction_no_check(rxn_dict, rxns, added) ==
    LET new_rxn == HiPRGen_Reaction(rxn_dict, 2)
        tag == determine_chemical_reaction_tag(new_rxn)
    IN  [rxns |-> Append(rxns, [new_rxn EXCEPT !.tag = tag]),
         added |-> added \cup {new_rxn.name}]

process_P2_reaction(rxn_dict, rxns, added) ==
    LET new_rxn == HiPRGen_Reaction(rxn_dict, 2)
        tag == determine_chemical_reaction_tag(new_rxn)
    IN  add_reaction_if_new(new_rxn, tag, rxns, added)

\* the except clauses of add_high_frequency_P2_reactions
ExceptClause_fnf_only(e) ==
    IF e = "FileNotFoundError" THEN "directory_or_file_missing" ELSE "propagate"

ExceptClause(e) ==
    IF e = "FileNotFoundError" THEN "directory_or_file_missing" ELSE "unexpected_error"

\* lines 129-142: the next reaction of the phase-1 tally
P1Classify ==
    /\ dpc = "p1"
    /\ idx <= MaxP1
    /\ \E rxn_dict \in Names :
          LET new_rxn == HiPRGen_Reaction(rxn_dict, 1)
              tag == IF reaction_is_ionization(new_rxn)
                     THEN determine_broad_ionization_tag(new_rxn)
                     ELSE determine_chemical_reaction_tag(new_rxn)
              res == add_reaction_if_new(new_rxn, tag, rxns_for_simulation,
                                         rxns_already_added)
          IN  /\ rxns_for_simulation' = res.rxns
              /\ rxns_already_added' = res.added
    /\ idx' = idx + 1
    /\ UNCHANGED <<dpc, cwd, index_rxn_dict, all_reactions, prod_i, pw_i, pr_i,
                   raised, printed, p2_entry, narrow_calls>>
    /\ UNCHANGED <<topVars, treeVars, rankVars, copyVars>>

\* the phase-1 tally has no further reaction
P1Done ==
    /\ dpc = "p1"
    /\ dpc' = "narrow"
    /\ idx' = 1
    /\ UNCHANGED <<cwd, index_rxn_dict, all_reactions, rxns_for_simulation,
                   rxns_already_added, prod_i, pw_i, pr_i, raised, printed,
                   p2_entry, narrow_calls>>
    /\ UNCHANGED <<topVars, treeVars, rankVars, copyVars>>

\* lines 144-149: one reaction of the narrowing pass
NarrowReaction ==
    /\ dpc = "narrow"
    /\ idx <= Len(rxns_for_simulation)
    /\ LET reaction == rxns_for_simulation[idx]
       IN  IF reaction.tag = "attachment_or_recombination"
           THEN /\ rxns_for_simulation' =
                      [rxns_for_simulation EXCEPT ![idx].tag =
                          narrow_down_ionization_type(reaction, rxns_for_simulation)]
                /\ narrow_calls' = Append(narrow_calls, rxns_for_simulation)
           ELSE UNCHANGED <<rxns_for_simulation, narrow_calls>>
    /\ idx' = idx + 1
    /\ UNCHANGED <<dpc, cwd, index_rxn_dict, all_reactions, rxns_already_added,
                   prod_i, pw_i, pr_i, raised, printed, p2_entry>>
    /\ UNCHANGED <<topVars, treeVars, rankVars, copyVars>>

\* line 157: the call of add_high_frequency_P2_reactions
NarrowDone ==
    /\ dpc = "narrow"
    /\ idx > Len(rxns_for_simulation)
    /\ dpc' = "p2_chdir"
    /\ p2_entry' = [rxns |-> rxns_for_simulation, added |-> rxns_already_added]
    /\ idx' = 1
    /\ UNCHANGED <<cwd, index_rxn_dict, all_reactions, rxns_for_simulation,
                   rxns_already_added, prod_i, pw_i, pr_i, raised, printed,
                   narrow_calls>>
    /\ UNCHANGED <<topVars, treeVars, rankVars, copyVars>>

\* line 72: the directory exists or not
P2Chdir ==
    /\ dpc = "p2_chdir"
    /\ \E exists \in BOOLEAN :
          IF exists
          THEN cwd' = "P2" /\ dpc' = "p2_load" /\ raised' = raised
          ELSE cwd' = cwd /\ dpc' = "p2_except" /\ raised' = "FileNotFoundError"
    /\ UNCHANGED <<index_rxn_dict, all_reactions, rxns_for_simulation,
                   rxns_already_added, idx, prod_i, pw_i, pr_i, printed, p2_entry,
                   narrow_calls>>
    /\ UNCHANGED <<topVars, treeVars, rankVars, copyVars>>

\* lines 74-76: reaction_tally.json is loaded, is absent, or cannot be read
P2Load ==
    /\ dpc = "p2_load"
    /\ \E status \in TallyStatus :
          IF status = "ok"
          THEN /\ index_rxn_dict' \in SeqsUpTo(P2Entry, MaxP2)
               /\ dpc' = "p2_loop"
               /\ raised' = raised
          ELSE /\ index_rxn_dict' = index_rxn_dict
               /\ dpc' = "p2_except"
               /\ raised' = IF status = "missing"
                            THEN "FileNotFoundError" ELSE "JSONDecodeError"
    /\ idx' = 1
    /\ UNCHANGED <<cwd, all_reactions, rxns_for_simulation, rxns_already_added,
                   prod_i, pw_i, pr_i, printed, p2_entry, narrow_calls>>
    /\ UNCHANGED <<topVars, treeVars, rankVars, copyVars>>

\* lines 78-84: one reaction of the phase-2 tally
P2Reaction ==
    /\ dpc = "p2_loop"
    /\ idx <= Len(index_rxn_dict)
    /\ LET rxn_dict == index_rxn_dict[idx].rxn_dict
           rxn_frequency == index_rxn_dict[idx].frequency
       IN  IF rxn_frequency >= FrequencyThreshold
           THEN IF rxn_dict = Malformed
                THEN /\ raised' = "KeyError"
                     /\ dpc' = "p2_except"
                     /\ UNCHANGED <<rxns_for_simulation, rxns_already_added>>
                ELSE LET res == process_P2_reaction(rxn_dict, rxns_for_simulation,
                                                    rxns_already_added)
                     IN  /\ rxns_for_simulation' = res.rxns
                         /\ rxns_already_added' = res.added
                         /\ UNCHANGED <<raised, dpc>>
           ELSE UNCHANGED <<rxns_for_simulation, rxns_already_added, raised, dpc>>
    /\ idx' = idx + 1
    /\ UNCHANGED <<cwd, index_rxn_dict, all_reactions, prod_i, pw_i, pr_i, printed,
                   p2_entry, narrow_calls>>
    /\ UNCHANGED <<topVars, treeVars, rankVars, copyVars>>

\* the loop ends and the function returns None; its locals are gone
P2Return ==
    /\ dpc = "p2_loop"
    /\ idx > Len(index_rxn_dict)
    /\ dpc' = "load_sink"
    /\ index_rxn_dict' = <<>>
    /\ p2_entry' = [rxns |-> <<>>, added |-> {}]
    /\ UNCHANGED <<cwd, all_reactions, rxns_for_simulation, rxns_already_added, idx,
                   prod_i, pw_i, pr_i, raised, printed, narrow_calls>>
    /\ UNCHANGED <<topVars, treeVars, rankVars, copyVars>>

\* lines 86-89
P2Except ==
    /\ dpc = "p2_except"
    /\ LET clause == ExceptClause(raised)
       IN  IF clause = "propagate"
           THEN dpc' = "aborted" /\ UNCHANGED <<raised, printed>>
           ELSE /\ printed' = Append(printed, clause)
                /\ raised' = "none"
                /\ dpc' = "load_sink"
    /\ index_rxn_dict' = <<>>
    /\ p2_entry' = [rxns |-> <<>>, added |-> {}]
    /\ UNCHANGED <<cwd, all_reactions, rxns_for_simulation, rxns_already_added, idx,
                   prod_i, pw_i, pr_i, narrow_calls>>
    /\ UNCHANGED <<topVars, treeVars, rankVars, copyVars>>

\* line 159: sink_report.json is there or not
LoadSinkReport ==
    /\ dpc = "load_sink"
    /\ \E found \in BOOLEAN : dpc' = IF found THEN "product" ELSE "aborted"
    /\ prod_i' = 1
    /\ UNCHANGED <<cwd, index_rxn_dict, all_reactions, rxns_for_simulation,
                   rxns_already_added, idx, pw_i, pr_i, raised, printed, p2_entry,
                   narrow_calls>>
    /\ UNCHANGED <<topVars, treeVars, rankVars, copyVars>>

\* lines 161-167: the next product's pathway file is loaded
LoadPathways ==
    /\ dpc = "product"
    /\ prod_i <= MaxProducts
    /\ all_pathways_list' \in DriverPathwayLists
    /\ all_reactions' \in AllReactions
    /\ rpc' = "sort"
    /\ dpc' = "pathways"
    /\ pw_i' = 1
    /\ pr_i' = 1
    /\ UNCHANGED <<sorted_pathways_list, to_save_pathways, pi>>
    /\ UNCHANGED <<cwd, index_rxn_dict, rxns_for_simulation, rxns_already_added, idx,
                   prod_i, raised, printed, p2_entry, narrow_calls>>
    /\ UNCHANGED <<topVars, treeVars, copyVars>>

\* lines 180-183: one reaction of one saved pathway
PathwayReaction ==
    /\ dpc = "pathways"
    /\ rpc = "saved"
    /\ pw_i <= Len(to_save_pathways)
    /\ pr_i <= Len(to_save_pathways[pw_i])
    /\ LET reaction == to_save_pathways[pw_i][pr_i]
           rxn_dict == all_reactions[reaction]
       IN  IF rxn_dict = Malformed
           THEN /\ dpc' = "aborted"
                /\ UNCHANGED <<rxns_for_simulation, rxns_already_added>>
           ELSE LET res == process_P2_reaction(rxn_dict, rxns_for_simulation,
                                               rxns_already_added)
                IN  /\ rxns_for_simulation' = res.rxns
                    /\ rxns_already_added' = res.added
                    /\ dpc' = dpc
    /\ pr_i' = pr_i + 1
    /\ UNCHANGED <<cwd, index_rxn_dict, all_reactions, idx, prod_i, pw_i, raised,
                   printed, p2_entry, narrow_calls>>
    /\ UNCHANGED <<topVars, treeVars, rankVars, copyVars>>

NextPathway ==
    /\ dpc = "pathways"
    /\ rpc = "saved"
    /\ pw_i <= Len(to_save_pathways)
    /\ pr_i > Len(to_save_pathways[pw_i])
    /\ pw_i' = pw_i + 1
    /\ pr_i' = 1
    /\ UNCHANGED <<dpc, cwd, index_rxn_dict, all_reactions, rxns_for_simulation,
                   rxns_already_added, idx, prod_i, raised, printed, p2_entry,
                   narrow_calls>>
    /\ UNCHANGED <<topVars, treeVars, rankVars, copyVars>>

NextProduct ==
    /\ dpc = "pathways"
    /\ rpc = "saved"
    /\ pw_i > Len(to_save_pathways)
    /\ prod_i' = prod_i + 1
    /\ dpc' = "product"
    /\ UNCHANGED <<cwd, index_rxn_dict, all_reactions, rxns_for_simulation,
                   rxns_already_added, idx, pw_i, pr_i, raised, printed, p2_entry,
                   narrow_calls>>
    /\ UNCHANGED <<topVars, treeVars, rankVars, copyVars>>

\* line 188: the sink report has no further product
ProductsDone ==
    /\ dpc = "product"
    /\ dpc' = "build"
    /\ idx' = 1
    /\ tagged_rxn_dict' = EmptyTree
    /\ UNCHANGED <<classification_list, call_log>>
    /\ UNCHANGED <<cwd, index_rxn_dict, all_reactions, rxns_for_simulation,
                   rxns_already_added, prod_i, pw_i, pr_i, raised, printed, p2_entry,
                   narrow_calls>>
    /\ UNCHANGED <<topVars, rankVars, copyVars>>

\* lines 190-193: one reaction goes into the tree; the object is known by its
\* position in rxns_for_simulation
BuildTree ==
    /\ dpc = "build"
    /\ idx <= Len(rxns_for_simulation)
    /\ classification_list' =
          (idx :> write_reaction_classification(rxns_for_simulation[idx])) @@ classification_list
    /\ LET res == add_value_to_nested_dict(idx, classification_list'[idx], tagged_rxn_dict)
       IN  /\ tagged_rxn_dict' = res.tree
           /\ call_log' = Append(call_log, [rxn |-> idx, exc |-> res.exc])
           /\ dpc' = IF res.exc = "none" THEN dpc ELSE "aborted"
    /\ idx' = idx + 1
    /\ UNCHANGED <<cwd, index_rxn_dict, all_reactions, rxns_for_simulation,
                   rxns_already_added, prod_i, pw_i, pr_i, raised, printed, p2_entry,
                   narrow_calls>>
    /\ UNCHANGED <<topVars, rankVars, copyVars>>

\* lines 199-200
DumpTree ==
    /\ dpc = "build"
    /\ idx > Len(rxns_for_simulation)
    /\ dpc' = "done"
    /\ UNCHANGED <<cwd, index_rxn_dict, all_reactions, rxns_for_simulation,
                   rxns_already_added, idx, prod_i, pw_i, pr_i, raised, printed,
                   p2_entry, narrow_calls>>
    /\ UNCHANGED <<topVars, treeVars, rankVars, copyVars>>

DriverNext ==
    \/ P1Classify \/ P1Done \/ NarrowReaction \/ NarrowDone
    \/ P2Chdir \/ P2Load \/ P2Reaction \/ P2Return \/ P2Except
    \/ LoadSinkReport \/ LoadPathways
    \/ SortPathways \/ SavePathway \/ PathwaysExhausted
    \/ PathwayReaction \/ NextPathway \/ NextProduct \/ ProductsDone
    \/ BuildTree \/ DumpTree

InP2Call == dpc \in {"p2_chdir", "p2_load", "p2_loop", "p2_except"}

\* C8: add_high_frequency_P2_reactions never propagates an exception: whatever
\* is raised inside it is caught, a message is printed, and the driver goes on
\* to load sink_report.json.
C8_P2NeverPropagates ==
    [][/\ InP2Call => (InP2Call' \/ dpc' = "load_sink")
       /\ raised # "none" =>
             /\ dpc' = "load_sink"
             /\ raised' = "none"
             /\ Len(printed') = Len(printed) + 1]_vars

\* the processing of a phase-2 reaction raised, and the driver is at its next step
C8_Witness ==
    /\ dpc = "load_sink"
    /\ printed = <<"unexpected_error">>
    /\ idx > 1

\* C9: when the loop of add_high_frequency_P2_reactions fails at its k-th
\* reaction, rxns_for_simulation and rxns_already_added are as they were
\* before the call.
C9_NoPartialCommit ==
    raised = "KeyError" =>
        /\ rxns_for_simulation = p2_entry.rxns
        /\ rxns_already_added = p2_entry.added

FinalNames == {rxns_for_simulation[i].name : i \in DOMAIN rxns_for_simulation}

\* C10: the population passed to narrow_down_ionization_type holds every
\* reaction of the final output tree, each with a tag assigned.
C10_NarrowSeesFullPopulation ==
    dpc = "done" =>
        \A c \in DOMAIN narrow_calls :
            /\ FinalNames \subseteq {narrow_calls[c][i].name : i \in DOMAIN narrow_calls[c]}
            /\ \A i \in DOMAIN narrow_calls[c] : narrow_calls[c][i].tag # ""

\* C11: rxns_for_simulation never holds two reactions with the same name, and
\* rxns_already_added is exactly the set of names of its reactions.
C11_NoDuplicateNames ==
    /\ \A i, j \in DOMAIN rxns_for_simulation :
          i # j => rxns_for_simulation[i].name # rxns_for_simulation[j].name
    /\ rxns_already_added = FinalNames

\* a saved pathway went through a reaction that phase 1 had already added
C11_Witness ==
    /\ dpc = "pathways"
    /\ rpc = "saved"
    /\ pw_i > Len(to_save_pathways)
    /\ \E p \in DOMAIN to_save_pathways :
          \E k \in Range(to_save_pathways[p]) :
              \E i \in DOMAIN rxns_for_simulation :
                  /\ rxns_for_simulation[i].phase = 1
                  /\ rxns_for_simulation[i].name = all_reactions[k]

\* ------------------------------------------- gen_euvl_testset: test_set loop
MaxKeys == 2        \* keys of a database entry besides molecule_id
MaxEntries == 1     \* entries of database_entries

MolIds == {1, 2}

\* key names, as the sequences of their characters
molecule_id == <<"m","o","l","e","c","u","l","e","_","i","d">>
energy == <<"e","n","e","r","g","y">>
nbo == <<"n","b","o">>
alpha == <<"a","l","p","h","a">>
beta == <<"b","e","t","a">>
beta_spin == <<"b","e","t","a","_","s","p","i","n">>
nbo_alpha == <<"n","b","o","_","a","l","p","h","a">>

to_remove == <<nbo, alpha, beta>>

OtherNames == {energy, nbo, beta_spin, nbo_alpha}

\* `remove in name` on strings: remove is a contiguous part of name
Contains(name, remove) ==
    \E i \in 1..(Len(name) - Len(remove) + 1) :
        SubSeq(name, i, i + Len(remove) - 1) = remove

\* a dict is the sequence of its (name, val) items in insertion order
keys(dict) == {dict[i].name : i \in DOMAIN dict}

\* entries of the database: molecule_id first, then distinct other keys, each
\* holding a value of its own
DatabaseEntries ==
    {<<[name |-> molecule_id, val |-> m]>> \o [i \in 1..Len(ns) |-> [name |-> ns[i], val |-> 10 + i]] :
        m \in MolIds,
        ns \in {q \in SeqsUpTo(OtherNames, MaxKeys) : \A i, j \in DOMAIN q : i # j => q[i] # q[j]}}

\* dict.pop(name) without a default: KeyError when the key is absent
pop(dict, name) ==
    IF name \in keys(dict)
    THEN [exc |-> "none", dict |-> SelectSeq(dict, LAMBDA it : it.name # name)]
    ELSE [exc |-> "KeyError", dict |-> dict]

\* line 46-47: next element of database_entries, selected by its molecule_id
NextEntry ==
    /\ cpc \in {"for", "appended"}
    /\ db_i <= MaxEntries
    /\ \E e \in DatabaseEntries :
          /\ entry' = e
          /\ cpc' = IF e[1].val \in final_mol_ids THEN "deepcopy" ELSE "for"
    /\ db_i' = db_i + 1
    /\ UNCHANGED <<final_mol_ids, new_entry, test_set, name_i, rem_i, copy_raised>>
    /\ UNCHANGED <<topVars, treeVars, rankVars, driverVars>>

\* line 48
DeepCopy ==
    /\ cpc = "deepcopy"
    /\ new_entry' = entry
    /\ name_i' = 1
    /\ rem_i' = 1
    /\ cpc' = "names"
    /\ UNCHANGED <<final_mol_ids, entry, test_set, db_i, copy_raised>>
    /\ UNCHANGED <<topVars, treeVars, rankVars, driverVars>>

\* lines 50-52: one pass of the loop over to_remove for the current name
CheckRemove ==
    /\ cpc = "names"
    /\ name_i <= Len(entry)
    /\ rem_i <= Len(to_remove)
    /\ LET name == entry[name_i].name
           out == pop(new_entry, name)
       IN  IF Contains(name, to_remove[rem_i])
           THEN /\ new_entry' = out.dict
                /\ copy_raised' = out.exc
                /\ cpc' = IF out.exc = "none" THEN "names" ELSE "raised"
           ELSE UNCHANGED <<new_entry, copy_raised, cpc>>
    /\ rem_i' = rem_i + 1
    /\ UNCHANGED <<final_mol_ids, entry, test_set, db_i, name_i>>
    /\ UNCHANGED <<topVars, treeVars, rankVars, driverVars>>

\* line 49: next key of entry
NextName ==
    /\ cpc = "names"
    /\ name_i <= Len(entry)
    /\ rem_i > Len(to_remove)
    /\ name_i' = name_i + 1
    /\ rem_i' = 1
    /\ UNCHANGED <<final_mol_ids, entry, new_entry, test_set, db_i, cpc, copy_raised>>
    /\ UNCHANGED <<topVars, treeVars, rankVars, driverVars>>

\* line 53
AppendEntry ==
    /\ cpc = "names"
    /\ name_i > Len(entry)
    /\ test_set' = Append(test_set, new_entry)
    /\ cpc' = "appended"
    /\ UNCHANGED <<final_mol_ids, entry, new_entry, db_i, name_i, rem_i, copy_raised>>
    /\ UNCHANGED <<topVars, treeVars, rankVars, driverVars>>

\* line 55
DumpTestSet ==
    /\ cpc \in {"for", "appended"}
    /\ db_i > MaxEntries
    /\ cpc' = "dumped"
    /\ UNCHANGED <<final_mol_ids, entry, new_entry, test_set, db_i, name_i, rem_i, copy_raised>>
    /\ UNCHANGED <<topVars, treeVars, rankVars, driverVars>>

CopyNext ==
    \/ NextEntry
    \/ DeepCopy
    \/ CheckRemove
    \/ NextName
    \/ AppendEntry
    \/ DumpTestSet

\* the items of an entry whose name contains none of the substrings
Kept(dict) ==
    SelectSeq(dict, LAMBDA it : \A k \in DOMAIN to_remove : ~Contains(it.name, to_remove[k]))

\* C18: for every selected entry, whatever its key names, the copy loop ends
\* without error and the copy appended to test_set holds exactly the items of
\* the entry whose name contains none of 'nbo', 'alpha', 'beta'.
C18_CopyDropsMatchingKeys ==
    /\ copy_raised = "none"
    /\ cpc = "appended" => test_set[Len(test_set)] = Kept(entry)


\* --------------------------------------------------------- specifications
\* build_top_reaction_dict is entered with some index_reaction_dict
TopInit ==
    /\ role \in {"products", "reactants"}
    /\ index_reaction_dict \in SeqsUpTo(Reaction(role), MaxRxns)
    /\ top_reactions = <<>>
    /\ ri = 1
    /\ si = 1
    /\ tpc = "loop"
    /\ classification_list = <<>>
    /\ tagged_rxn_dict = EmptyTree
    /\ call_log = <<>>
    /\ all_pathways_list = <<>>
    /\ sorted_pathways_list = <<>>
    /\ to_save_pathways = <<>>
    /\ pi = 1
    /\ rpc = "idle"
    /\ index_rxn_dict = <<>>
    /\ all_reactions = <<>>
    /\ dpc = "idle"
    /\ cwd = "P1"
    /\ rxns_for_simulation = <<>>
    /\ rxns_already_added = {}
    /\ idx = 1
    /\ prod_i = 1
    /\ pw_i = 1
    /\ pr_i = 1
    /\ raised = "none"
    /\ printed = <<>>
    /\ p2_entry = [rxns |-> <<>>, added |-> {}]
    /\ narrow_calls = <<>>
    /\ final_mol_ids = {}
    /\ entry = <<>>
    /\ new_entry = <<>>
    /\ test_set = <<>>
    /\ db_i = 1
    /\ name_i = 1
    /\ rem_i = 1
    /\ cpc = "idle"
    /\ copy_raised = "none"

SpecTop == TopInit /\ [][TopNext]_vars

\* an empty tree and reactions with their classification lists
TreeInit ==
    /\ index_reaction_dict = <<>>
    /\ role = "products"
    /\ top_reactions = <<>>
    /\ ri = 1
    /\ si = 1
    /\ tpc = "idle"
    /\ classification_list \in [RxnIds -> Paths]
    /\ tagged_rxn_dict = EmptyTree
    /\ call_log = <<>>
    /\ all_pathways_list = <<>>
    /\ sorted_pathways_list = <<>>
    /\ to_save_pathways = <<>>
    /\ pi = 1
    /\ rpc = "idle"
    /\ index_rxn_dict = <<>>
    /\ all_reactions = <<>>
    /\ dpc = "idle"
    /\ cwd = "P1"
    /\ rxns_for_simulation = <<>>
    /\ rxns_already_added = {}
    /\ idx = 1
    /\ prod_i = 1
    /\ pw_i = 1
    /\ pr_i = 1
    /\ raised = "none"
    /\ printed = <<>>
    /\ p2_entry = [rxns |-> <<>>, added |-> {}]
    /\ narrow_calls = <<>>
    /\ final_mol_ids = {}
    /\ entry = <<>>
    /\ new_entry = <<>>
    /\ test_set = <<>>
    /\ db_i = 1
    /\ name_i = 1
    /\ rem_i = 1
    /\ cpc = "idle"
    /\ copy_raised = "none"

SpecTree == TreeInit /\ [][TreeNext]_vars

\* the pathway list of one product has been loaded
RankInit ==
    /\ index_reaction_dict = <<>>
    /\ role = "products"
    /\ top_reactions = <<>>
    /\ ri = 1
    /\ si = 1
    /\ tpc = "idle"
    /\ classification_list = <<>>
    /\ tagged_rxn_dict = EmptyTree
    /\ call_log = <<>>
    /\ all_pathways_list \in PathwayLists
    /\ sorted_pathways_list = <<>>
    /\ to_save_pathways = <<>>
    /\ pi = 1
    /\ rpc = "sort"
    /\ index_rxn_dict = <<>>
    /\ all_reactions = <<>>
    /\ dpc = "idle"
    /\ cwd = "P1"
    /\ rxns_for_simulation = <<>>
    /\ rxns_already_added = {}
    /\ idx = 1
    /\ prod_i = 1
    /\ pw_i = 1
    /\ pr_i = 1
    /\ raised = "none"
    /\ printed = <<>>
    /\ p2_entry = [rxns |-> <<>>, added |-> {}]
    /\ narrow_calls = <<>>
    /\ final_mol_ids = {}
    /\ entry = <<>>
    /\ new_entry = <<>>
    /\ test_set = <<>>
    /\ db_i = 1
    /\ name_i = 1
    /\ rem_i = 1
    /\ cpc = "idle"
    /\ copy_raised = "none"

SpecRank == RankInit /\ [][RankNext]_vars

\* the driver script starts with its input files on disk
DriverInit ==
    /\ index_reaction_dict = <<>>
    /\ role = "products"
    /\ top_reactions = <<>>
    /\ ri = 1
    /\ si = 1
    /\ tpc = "idle"
    /\ classification_list = <<>>
    /\ tagged_rxn_dict = EmptyTree
    /\ call_log = <<>>
    /\ all_pathways_list = <<>>
    /\ sorted_pathways_list = <<>>
    /\ to_save_pathways = <<>>
    /\ pi = 1
    /\ rpc = "idle"
    /\ index_rxn_dict = <<>>
    /\ all_reactions = <<>>
    /\ dpc = "p1"
    /\ cwd = "P1"
    /\ rxns_for_simulation = <<>>
    /\ rxns_already_added = {}
    /\ idx = 1
    /\ prod_i = 1
    /\ pw_i = 1
    /\ pr_i = 1
    /\ raised = "none"
    /\ printed = <<>>
    /\ p2_entry = [rxns |-> <<>>, added |-> {}]
    /\ narrow_calls = <<>>
    /\ final_mol_ids = {}
    /\ entry = <<>>
    /\ new_entry = <<>>
    /\ test_set = <<>>
    /\ db_i = 1
    /\ name_i = 1
    /\ rem_i = 1
    /\ cpc = "idle"
    /\ copy_raised = "none"

SpecDriver == DriverInit /\ [][DriverNext]_vars

CopyInit ==
    /\ index_reaction_dict = <<>>
    /\ role = "products"
    /\ top_reactions = <<>>
    /\ ri = 1
    /\ si = 1
    /\ tpc = "idle"
    /\ classification_list = <<>>
    /\ tagged_rxn_dict = EmptyTree
    /\ call_log = <<>>
    /\ all_pathways_list = <<>>
    /\ sorted_pathways_list = <<>>
    /\ to_save_pathways = <<>>
    /\ pi = 1
    /\ rpc = "idle"
    /\ index_rxn_dict = <<>>
    /\ all_reactions = <<>>
    /\ dpc = "idle"
    /\ cwd = "P1"
    /\ rxns_for_simulation = <<>>
    /\ rxns_already_added = {}
    /\ idx = 1
    /\ prod_i = 1
    /\ pw_i = 1
    /\ pr_i = 1
    /\ raised = "none"
    /\ printed = <<>>
    /\ p2_entry = [rxns |-> <<>>, added |-> {}]
    /\ narrow_calls = <<>>
    /\ final_mol_ids \in SUBSET MolIds
    /\ entry = <<>>
    /\ new_entry = <<>>
    /\ test_set = <<>>
    /\ db_i = 1
    /\ name_i = 1
    /\ rem_i = 1
    /\ cpc = "for"
    /\ copy_raised = "none"

SpecCopy == CopyInit /\ [][CopyNext]_vars

====
